---- MODULE Spec2Model ----
(***************************************************************************)
(* The SHAMap synchronisation code of rippled (getMissingNodes,            *)
(* getNodeFat, addRootNode, addKnownNode, deepCompare, syncTest) as a      *)
(* state machine over a fixed-depth hash trie.                             *)
(*                                                                         *)
(* A node ID is the path of branches from the root.  A hash is modelled as *)
(* an injective function of the serialized node (no collisions); the hash  *)
(* of an inner node without children is zero.                              *)
(***************************************************************************)
EXTENDS Integers, Sequences, FiniteSets, TLC

\* Branches of an inner node (the code loops over 32).
NumBranches == 2
\* Depth of the leaves (inner nodes live at depths 0 .. LeafDepth-1).
LeafDepth == 2
\* Number of distinct item keys the clients use.
MaxKeys == 3
\* Largest budget handed to getMissingNodes by a client.
MaxBudget == 2
\* The budget syncTest hands to getMissingNodes.
SyncBudget == 128

Branches == 0 .. (NumBranches - 1)

RootID == << >>
\* "no node": the null pointer of the code
Null == << -1 >>

RECURSIVE PathsOfLen(_)
PathsOfLen(n) ==
  IF n = 0 THEN { << >> }
  ELSE { Append(p, b) : p \in PathsOfLen(n - 1), b \in Branches }

InnerIDs == UNION { PathsOfLen(d) : d \in 0 .. (LeafDepth - 1) }
LeafIDs == PathsOfLen(LeafDepth)
NodeIDs == InnerIDs \cup LeafIDs

isLeaf(id) == Len(id) = LeafDepth
isRoot(id) == Len(id) = 0
getDepth(id) == Len(id)

\* The i-th item key: a leaf path.  Keys 1 and 2 share every inner node,
\* key 3 leaves the others at the root.
KeyOf(i) ==
  CHOOSE p \in LeafIDs :
    \A j \in 1 .. LeafDepth :
      p[j] = IF j = LeafDepth THEN (i - 1) % 2
             ELSE IF j = 1 THEN ((i - 1) \div 2) % NumBranches
             ELSE 0

Keys == { KeyOf(i) : i \in 1 .. MaxKeys }
\* The item sets a sender's tree goes through as it grows, key by key
ItemSets == { { KeyOf(j) : j \in 1 .. i } : i \in 0 .. MaxKeys }

----------------------------------------------------------------------------
\* Node codec

ZeroHash == << >>

\* SHA512Half of the wire form, taken to be collision free
Hash(raw) == << raw >>

LeafRawOf(key) == [ key |-> key, kind |-> "leaf", hashes |-> << >> ]
InnerRawOf(hashes) == [ key |-> << >>, kind |-> "inner", hashes |-> hashes ]

\* SHAMapInnerNode::addRaw / SHAMapLeafNode::addRaw
InnerAddRaw(node) == InnerRawOf(node.hashes)
LeafAddRaw(leaf) == LeafRawOf(leaf.key)

\* SHAMapInnerNode(id, raw, seq): a fresh node, not full below
MakeInner(raw) == [ hashes |-> raw.hashes, fullBelow |-> FALSE ]
MakeLeaf(raw) == [ key |-> raw.key ]

WellFormedInner(raw) == raw.kind = "inner" /\ Len(raw.hashes) = NumBranches
WellFormedLeaf(raw) == raw.kind = "leaf" /\ Len(raw.key) = LeafDepth

\* SHAMapInnerNode::getNodeHash: zero when every branch is empty
InnerNodeHash(node) ==
  IF \A b \in Branches : node.hashes[b + 1] = ZeroHash
  THEN ZeroHash
  ELSE Hash(InnerAddRaw(node))

LeafNodeHash(leaf) == Hash(LeafAddRaw(leaf))

isEmptyBranch(node, b) == node.hashes[b + 1] = ZeroHash
getChildHash(node, b) == node.hashes[b + 1]
getChildNodeID(id, b) == Append(id, b)
isChildLeaf(id) == Len(id) = LeafDepth - 1
\* SHAMapInnerNode::selectBranch on the key of the wanted node
selectBranch(id, key) == key[Len(id) + 1]

----------------------------------------------------------------------------
\* The tree a set of items builds (what addItem leaves behind)

IsPrefix(p, k) == Len(p) <= Len(k) /\ \A j \in 1 .. Len(p) : p[j] = k[j]
SubKeys(S, id) == { k \in S : IsPrefix(id, k) }

RECURSIVE TreeHash(_, _)
TreeRaw(S, id) ==
  IF isLeaf(id) THEN LeafRawOf(id)
  ELSE InnerRawOf([ i \in 1 .. NumBranches |-> TreeHash(S, Append(id, i - 1)) ])

TreeHash(S, id) ==
  IF SubKeys(S, id) = {} THEN ZeroHash ELSE Hash(TreeRaw(S, id))

TreeInnerIDs(S) == { id \in InnerIDs : isRoot(id) \/ SubKeys(S, id) # {} }

\* A SHAMap holding exactly the items S, every node resident
CompleteMap(S, tracking) ==
  [ tracking |-> tracking,
    mInnerNodeByID |-> [ id \in TreeInnerIDs(S) |-> MakeInner(TreeRaw(S, id)) ],
    mLeafByID |-> [ id \in S |-> MakeLeaf(TreeRaw(S, id)) ],
    mDirtyInnerNodes |-> IF tracking THEN TreeInnerIDs(S) ELSE {},
    mDirtyLeafNodes |-> IF tracking THEN S ELSE {} ]

\* SHAMap(): an empty root, indexed by its ID
EmptyMap(tracking) == CompleteMap({}, tracking)

\* Every payload a peer may push: the nodes of the sender's trees, current or
\* stale
AllInnerRaws == { TreeRaw(S, id) : S \in ItemSets, id \in InnerIDs }
AllLeafRaws == { LeafRawOf(k) : k \in Keys }
AllRaws == AllInnerRaws \cup AllLeafRaws
AllHashes == { ZeroHash } \cup { Hash(r) : r \in AllRaws }

----------------------------------------------------------------------------
\* Node store

Root(m) == m.mInnerNodeByID[RootID]

checkCacheNode(m, id) == id \in DOMAIN m.mInnerNodeByID

checkCacheLeaf(m, id) == id \in DOMAIN m.mLeafByID

getInnerNode(m, id) == IF id \in DOMAIN m.mInnerNodeByID THEN id ELSE Null
getLeafNode(m, id) == IF id \in DOMAIN m.mLeafByID THEN id ELSE Null

\* getInner(id, hash, false): the resident node, if its hash is the expected one
getInner(m, id, hash) ==
  IF id \in DOMAIN m.mInnerNodeByID /\ InnerNodeHash(m.mInnerNodeByID[id]) = hash
  THEN id ELSE Null

getLeaf(m, id, hash) ==
  IF id \in DOMAIN m.mLeafByID /\ LeafNodeHash(m.mLeafByID[id]) = hash
  THEN id ELSE Null

setFullBelow(m, id) ==
  [ m EXCEPT !.mInnerNodeByID = [ @ EXCEPT ![id] = [ @ EXCEPT !.fullBelow = TRUE ] ] ]

\* walkTo(id): the deepest resident inner node on the path to id
RECURSIVE WalkFrom(_, _, _)
WalkFrom(m, cur, id) ==
  IF Len(cur) >= Len(id) THEN cur
  ELSE LET n == m.mInnerNodeByID[cur]
           b == selectBranch(cur, id)
       IN IF isEmptyBranch(n, b) \/ isChildLeaf(cur) THEN cur
          ELSE LET next == getInner(m, getChildNodeID(cur, b), getChildHash(n, b))
               IN IF next = Null THEN cur ELSE WalkFrom(m, next, id)

walkTo(m, id) == WalkFrom(m, RootID, id)

----------------------------------------------------------------------------
\* getMissingNodes

\* a lookup that never finds the child
ChildMissingAlways(m, node, i) == TRUE

\* a lookup that never finds a leaf
ChildMissingLeaves(m, node, i) == isChildLeaf(node)

\* line 34/50: the child the parent names is not in the store
ChildMissing(m, node, i) ==
  LET n == m.mInnerNodeByID[node]
  IN IF isChildLeaf(node)
     THEN getLeaf(m, getChildNodeID(node, i), getChildHash(n, i)) = Null
     ELSE getInner(m, getChildNodeID(node, i), getChildHash(n, i)) = Null

\* an id emitted whatever is left of the budget
BudgetLeftAlways(max) == TRUE

\* line 36/52: if(max-->0)
BudgetLeft(max) == max > 0

\* the hash of the node itself pushed in place of the child's
EmittedHashOfNode(n, i) == InnerNodeHash(n)

\* lines 42/55: hashes.push_back(node->getChildHash(i))
EmittedHash(n, i) == getChildHash(n, i)

\* lines 24-68: the scan of one node's branches.  acc carries max, the two
\* output vectors, all_leaves and the stack.
RECURSIVE ScanBranches(_, _, _, _)
ScanBranches(m, node, i, acc) ==
  IF i >= NumBranches THEN acc
  ELSE
    LET n == m.mInnerNodeByID[node]
        child == getChildNodeID(node, i)
    IN IF isEmptyBranch(n, i) THEN ScanBranches(m, node, i + 1, acc)
       ELSE IF ChildMissing(m, node, i)
       THEN ScanBranches(m, node, i + 1,
              [ acc EXCEPT
                  !.max = @ - 1,
                  !.nodeIDs = IF BudgetLeft(acc.max) THEN Append(@, child) ELSE @,
                  !.hashes = IF BudgetLeft(acc.max)
                             THEN Append(@, EmittedHash(n, i)) ELSE @,
                  !.all_leaves = FALSE ])
       ELSE IF ~isChildLeaf(node) /\ ~m.mInnerNodeByID[child].fullBelow
       THEN ScanBranches(m, node, i + 1, [ acc EXCEPT !.stack = Append(@, child) ])
       ELSE ScanBranches(m, node, i + 1, acc)

\* line 69: if(all_leaves) node->setFullBelow();
MarkFullBelow(m, node, all_leaves) ==
  IF all_leaves THEN setFullBelow(m, node) ELSE m

\* a walk that goes on until the stack drains, whatever the budget
RECURSIVE MissingLoopUnbudgeted(_, _)
MissingLoopUnbudgeted(m, acc) ==
  IF acc.stack # << >>
  THEN LET node == acc.stack[Len(acc.stack)]
           popped == [ acc EXCEPT !.stack = SubSeq(@, 1, Len(@) - 1),
                                  !.all_leaves = TRUE ]
           after == ScanBranches(m, node, 0, popped)
       IN MissingLoopUnbudgeted(MarkFullBelow(m, node, after.all_leaves), after)
  ELSE [ hashes |-> acc.hashes, nodeIDs |-> acc.nodeIDs, map |-> m ]

\* lines 19-70: the walk
RECURSIVE MissingLoop(_, _)
MissingLoop(m, acc) ==
  IF acc.max > 0 /\ acc.stack # << >>
  THEN LET node == acc.stack[Len(acc.stack)]
           popped == [ acc EXCEPT !.stack = SubSeq(@, 1, Len(@) - 1),
                                  !.all_leaves = TRUE ]
           after == ScanBranches(m, node, 0, popped)
       IN MissingLoop(MarkFullBelow(m, node, after.all_leaves), after)
  ELSE [ hashes |-> acc.hashes, nodeIDs |-> acc.nodeIDs, map |-> m ]

\* getMissingNodes(nodeIDs, hashes, max): appends to the caller's vectors
getMissingNodes(m, nodeIDs, hashes, max) ==
  IF Root(m).fullBelow
  THEN [ hashes |-> hashes, nodeIDs |-> nodeIDs, map |-> m ]
  ELSE MissingLoop(m, [ hashes |-> hashes, max |-> max, nodeIDs |-> nodeIDs,
                        all_leaves |-> TRUE, stack |-> << RootID >> ])

----------------------------------------------------------------------------
\* getNodeFat

\* a flag no missing child clears
FatFlagKept(ret, missing) == ret

\* lines 99/111: a missing child clears the flag, the loop goes on
FatFlag(ret, missing) == IF missing THEN FALSE ELSE ret

\* lines 92-121
RECURSIVE FatBranches(_, _, _, _)
FatBranches(m, node, i, acc) ==
  IF i >= NumBranches THEN acc
  ELSE
    LET n == m.mInnerNodeByID[node]
        child == getChildNodeID(node, i)
    IN IF isEmptyBranch(n, i) THEN FatBranches(m, node, i + 1, acc)
       ELSE IF ChildMissing(m, node, i)
       THEN FatBranches(m, node, i + 1, [ acc EXCEPT !.ret = FatFlag(@, TRUE) ])
       ELSE FatBranches(m, node, i + 1,
              [ acc EXCEPT
                  !.ret = FatFlag(@, FALSE),
                  !.nodeIDs = Append(@, child),
                  !.rawNodes = Append(@, IF isChildLeaf(node)
                                         THEN LeafAddRaw(m.mLeafByID[child])
                                         ELSE InnerAddRaw(m.mInnerNodeByID[child])) ])

\* getNodeFat(wanted, nodeIDs, rawNodes): appends to the caller's containers
getNodeFat(m, wanted, nodeIDs, rawNodes) ==
  IF isLeaf(wanted)
  THEN IF getLeafNode(m, wanted) = Null
       THEN [ nodeIDs |-> nodeIDs, ret |-> FALSE, rawNodes |-> rawNodes ]
       ELSE [ nodeIDs |-> Append(nodeIDs, wanted), ret |-> TRUE,
              rawNodes |-> Append(rawNodes, LeafAddRaw(m.mLeafByID[wanted])) ]
  ELSE IF getInnerNode(m, wanted) = Null
       THEN [ nodeIDs |-> nodeIDs, ret |-> FALSE, rawNodes |-> rawNodes ]
       ELSE FatBranches(m, wanted, 0,
              [ nodeIDs |-> nodeIDs, ret |-> TRUE, rawNodes |-> rawNodes ])

----------------------------------------------------------------------------
\* addRootNode

\* a root that is replaced on every push
HaveRootNever(m) == FALSE

\* lines 130/152: we already have a root node
HaveRoot(m) == InnerNodeHash(Root(m)) # ZeroHash

\* lines 141-143 / 165-167
InstallRoot(m, node) ==
  [ m EXCEPT !.mInnerNodeByID = (RootID :> node) @@ @,
             !.mDirtyInnerNodes = IF m.tracking THEN @ \cup { RootID } ELSE @ ]

\* a push of a root that installs it over the root in place
addRootNodeReplacing(m, rootNode) ==
  IF ~WellFormedInner(rootNode)
  THEN [ map |-> m, ret |-> FALSE, asserted |-> FALSE, why |-> "malformed" ]
  ELSE [ map |-> InstallRoot(m, MakeInner(rootNode)), ret |-> TRUE,
         asserted |-> FALSE, why |-> "installed" ]

\* addRootNode(rootNode)
addRootNode(m, rootNode) ==
  IF HaveRoot(m)
  THEN [ map |-> m, ret |-> TRUE, asserted |-> FALSE, why |-> "have root" ]
  ELSE IF ~WellFormedInner(rootNode)
  THEN [ map |-> m, ret |-> FALSE, asserted |-> FALSE, why |-> "malformed" ]
  ELSE [ map |-> InstallRoot(m, MakeInner(rootNode)), ret |-> TRUE,
         asserted |-> FALSE, why |-> "installed" ]

\* a pushed root taken without looking at its hash
RootHashUnchecked(node, hash) == FALSE

\* line 163: if(node->getNodeHash()!=hash) return false;
RootHashMismatch(node, hash) == InnerNodeHash(node) # hash

\* addRootNode(hash, rootNode); asserted: the assert of line 157 failed
addRootNodeHash(m, hash, rootNode) ==
  IF HaveRoot(m)
  THEN [ map |-> m, ret |-> TRUE, asserted |-> InnerNodeHash(Root(m)) # hash,
         why |-> "have root" ]
  ELSE IF ~WellFormedInner(rootNode)
  THEN [ map |-> m, ret |-> FALSE, asserted |-> FALSE, why |-> "malformed" ]
  ELSE IF RootHashMismatch(MakeInner(rootNode), hash)
  THEN [ map |-> m, ret |-> FALSE, asserted |-> FALSE, why |-> "hash mismatch" ]
  ELSE [ map |-> InstallRoot(m, MakeInner(rootNode)), ret |-> TRUE,
         asserted |-> FALSE, why |-> "installed" ]

----------------------------------------------------------------------------
\* addKnownNode

\* a pushed inner node taken without looking at its hash
InnerUnchecked(node, newNode, hash) == FALSE

\* a leaf installed without a look at its hash or its ID
LeafUnchecked(node, leaf, hash) == FALSE

\* lines 221/234: the consistency check of a pushed node
LeafInconsistent(node, leaf, hash) == LeafNodeHash(leaf) # hash \/ node # leaf.key
InnerInconsistent(node, newNode, hash) == InnerNodeHash(newNode) # hash

\* lines 228-229
InstallLeaf(m, node, leaf) ==
  [ m EXCEPT !.mLeafByID = (node :> leaf) @@ @,
             !.mDirtyLeafNodes = IF m.tracking THEN @ \cup { node } ELSE @ ]

\* lines 241-242
InstallInner(m, node, newNode) ==
  [ m EXCEPT !.mInnerNodeByID = (node :> newNode) @@ @,
             !.mDirtyInnerNodes = IF m.tracking THEN @ \cup { node } ELSE @ ]

\* a push that never finds the node in the index
AlreadyHaveNever(m, node) == FALSE

\* a push that looks only inner nodes up in the index
AlreadyHaveInner(m, node) == ~isLeaf(node) /\ checkCacheNode(m, node)

\* lines 177-184: the node is in the index already
AlreadyHave(m, node) ==
  IF isLeaf(node) THEN checkCacheLeaf(m, node) ELSE checkCacheNode(m, node)

\* a node hooked beneath whatever ancestor was found
UnhookableNever(iNode, node) == FALSE

\* lines 201: the deepest resident ancestor is not the parent
Unhookable(iNode, node) == getDepth(iNode) # getDepth(node) - 1

\* addKnownNode without the return of line 216 for an empty slot
addKnownNodeAnySlot(m, node, rawNode) ==
  IF AlreadyHave(m, node) THEN [ map |-> m, ret |-> TRUE, why |-> "duplicate" ]
  ELSE
    LET iNode == walkTo(m, node)
    IN IF getDepth(iNode) = getDepth(node)
       THEN [ map |-> m, ret |-> TRUE, why |-> "late" ]
       ELSE IF Unhookable(iNode, node)
       THEN [ map |-> m, ret |-> FALSE, why |-> "unhookable" ]
       ELSE
         LET branch == selectBranch(iNode, node)
             hash == getChildHash(m.mInnerNodeByID[iNode], branch)
         IN IF isLeaf(node)
            THEN IF ~WellFormedLeaf(rawNode)
                 THEN [ map |-> m, ret |-> FALSE, why |-> "malformed" ]
                 ELSE IF LeafInconsistent(node, MakeLeaf(rawNode), hash)
                 THEN [ map |-> m, ret |-> FALSE, why |-> "inconsistent" ]
                 ELSE [ map |-> InstallLeaf(m, node, MakeLeaf(rawNode)), ret |-> TRUE,
                        why |-> "installed" ]
            ELSE IF ~WellFormedInner(rawNode)
                 THEN [ map |-> m, ret |-> FALSE, why |-> "malformed" ]
                 ELSE IF InnerInconsistent(node, MakeInner(rawNode), hash)
                 THEN [ map |-> m, ret |-> FALSE, why |-> "inconsistent" ]
                 ELSE [ map |-> InstallInner(m, node, MakeInner(rawNode)), ret |-> TRUE,
                        why |-> "installed" ]

\* addKnownNode(node, rawNode), node not the root; why names the return taken
addKnownNode(m, node, rawNode) ==
  IF AlreadyHave(m, node) THEN [ map |-> m, ret |-> TRUE, why |-> "duplicate" ]
  ELSE
    LET iNode == walkTo(m, node)
    IN IF getDepth(iNode) = getDepth(node)
       THEN [ map |-> m, ret |-> TRUE, why |-> "late" ]
       ELSE IF Unhookable(iNode, node)
       THEN [ map |-> m, ret |-> FALSE, why |-> "unhookable" ]
       ELSE
         LET branch == selectBranch(iNode, node)
             hash == getChildHash(m.mInnerNodeByID[iNode], branch)
         IN IF hash = ZeroHash THEN [ map |-> m, ret |-> FALSE, why |-> "empty slot" ]
            ELSE IF isLeaf(node)
            THEN IF ~WellFormedLeaf(rawNode)
                 THEN [ map |-> m, ret |-> FALSE, why |-> "malformed" ]
                 ELSE IF LeafInconsistent(node, MakeLeaf(rawNode), hash)
                 THEN [ map |-> m, ret |-> FALSE, why |-> "inconsistent" ]
                 ELSE [ map |-> InstallLeaf(m, node, MakeLeaf(rawNode)), ret |-> TRUE,
                        why |-> "installed" ]
            ELSE IF ~WellFormedInner(rawNode)
                 THEN [ map |-> m, ret |-> FALSE, why |-> "malformed" ]
                 ELSE IF InnerInconsistent(node, MakeInner(rawNode), hash)
                 THEN [ map |-> m, ret |-> FALSE, why |-> "inconsistent" ]
                 ELSE [ map |-> InstallInner(m, node, MakeInner(rawNode)), ret |-> TRUE,
                        why |-> "installed" ]

----------------------------------------------------------------------------
\* deepCompare

\* lines 276-316: the branches of one node against the other map's node
RECURSIVE CompareBranches(_, _, _, _, _)
CompareBranches(m, other, node, i, acc) ==
  IF i >= NumBranches \/ ~acc.ok THEN acc
  ELSE
    LET n == m.mInnerNodeByID[node]
        otherNode == IF isRoot(node) THEN Root(other) ELSE other.mInnerNodeByID[node]
        child == getChildNodeID(node, i)
    IN IF isEmptyBranch(n, i)
       THEN IF ~isEmptyBranch(otherNode, i) THEN [ acc EXCEPT !.ok = FALSE ]
            ELSE CompareBranches(m, other, node, i + 1, acc)
       ELSE IF isChildLeaf(node)
       THEN LET leaf == getLeaf(m, child, getChildHash(n, i))
            IN IF leaf = Null THEN [ acc EXCEPT !.ok = FALSE ]
               ELSE IF getLeaf(other, leaf, LeafNodeHash(m.mLeafByID[leaf])) = Null
               THEN [ acc EXCEPT !.ok = FALSE ]
               ELSE CompareBranches(m, other, node, i + 1, acc)
       ELSE LET next == getInner(m, child, getChildHash(n, i))
            IN IF next = Null THEN [ acc EXCEPT !.ok = FALSE ]
               ELSE CompareBranches(m, other, node, i + 1,
                                    [ acc EXCEPT !.stack = Append(@, next) ])

\* lines 252-317
RECURSIVE CompareLoop(_, _, _)
CompareLoop(m, other, stack) ==
  IF stack = << >> THEN TRUE
  ELSE
    LET node == stack[Len(stack)]
        rest == SubSeq(stack, 1, Len(stack) - 1)
        otherNode == IF isRoot(node) THEN RootID
                     ELSE getInner(other, node, InnerNodeHash(m.mInnerNodeByID[node]))
    IN IF otherNode = Null THEN FALSE
       ELSE IF InnerNodeHash(other.mInnerNodeByID[otherNode])
               # InnerNodeHash(m.mInnerNodeByID[node])
       THEN FALSE
       ELSE LET r == CompareBranches(m, other, node, 0, [ stack |-> rest, ok |-> TRUE ])
            IN IF ~r.ok THEN FALSE ELSE CompareLoop(m, other, r.stack)

\* a comparison that never finds a difference
deepCompareAlways(m, other) == TRUE

\* a comparison of the two maps field by field, flags and dirty sets included
deepCompareFields(m, other) == m = other

\* m.deepCompare(other)
deepCompare(m, other) == CompareLoop(m, other, << RootID >>)

----------------------------------------------------------------------------
\* State

VARIABLES
  map,          \* the SHAMap a client is synchronising
  call,         \* the last operation on map: its name, arguments and results
  pc,           \* syncTest: where it stands
  items,        \* syncTest: items added to source so far
  source,       \* syncTest: the source map
  destination,  \* syncTest: the destination map
  gotNodes,     \* syncTest: the raw nodes fetched last
  failure,      \* syncTest: the message of the failure hit, "" if none
  mLock,        \* of each of the two maps: the thread that holds its mLock
  thread,       \* of each thread: the operation it is in, on which maps
  transactor,   \* Transactor::apply: the fields of the Transactor
  applyAt,      \* Transactor::apply: the statement it stands before
  terResult,    \* Transactor::apply: terResult, and the value returned
  ran           \* Transactor::apply: the stages called so far, with results

vars == << map, call, pc, items, source, destination, gotNodes, failure,
           mLock, thread, transactor, applyAt, terResult, ran >>
lockVars == << mLock, thread >>
applyVars == << transactor, applyAt, terResult, ran >>
shaVars == << map, call, pc, items, source, destination, gotNodes, failure,
              lockVars >>
syncVars == << pc, items, source, destination, gotNodes, failure, lockVars,
               applyVars >>

\* The threads that call into the maps
NumThreads == 2
Threads == 1 .. NumThreads
NoThread == 0
\* The two maps of lines 323: each has its own mLock
Tries == { "source", "destination" }
\* a thread in none of the operations
Idle == [ other |-> "source", pc |-> "idle", op |-> "none", this |-> "source" ]
Unlocked == [ t \in Tries |-> NoThread ]

\* mTxnAccount is a pointer: no entry, or << the account root >>
NoAccount == << >>

\* lines 78-90: a Transactor as constructed; the fields the constructor
\* leaves out hold their types' defaults.  known: what mTxn knows of its
\* signature; mustHaveValidAccount: what the virtual of line 275 answers
Constructed(mustHave) ==
  [ mTxnAccountID |-> 0, mSigningPubKey |-> 0, mTxnAccount |-> NoAccount,
    mFeeDue |-> 0, mPriorBalance |-> 0, mSourceBalance |-> 0,
    mHasAuthKey |-> FALSE, mSigMaster |-> FALSE, known |-> "unknown",
    mustHaveValidAccount |-> mustHave ]

\* no transaction is being applied
NoApply ==
  /\ transactor = Constructed(TRUE)
  /\ applyAt = "idle"
  /\ terResult = "none"
  /\ ran = << >>

NoCall == [ n |-> 0, ret |-> TRUE, asserted |-> FALSE, why |-> "", op |-> "none" ]

\* A client's map: freshly constructed, tracking its dirty nodes
Init ==
  /\ map = EmptyMap(TRUE)
  /\ call = NoCall
  /\ pc = "idle"
  /\ items = 0
  /\ source = EmptyMap(FALSE)
  /\ destination = EmptyMap(FALSE)
  /\ gotNodes = << >>
  /\ failure = ""
  /\ mLock = Unlocked
  /\ thread = [ th \in Threads |-> Idle ]
  /\ NoApply

\* call.n: the number of ids the call appended
GetMissingNodes(max) ==
  LET r == getMissingNodes(map, << >>, << >>, max)
  IN /\ map' = r.map
     /\ call' = [ NoCall EXCEPT !.op = "getMissingNodes", !.n = Len(r.nodeIDs),
                                !.why = IF max > 0 THEN "budget" ELSE "no budget" ]
     /\ UNCHANGED syncVars

GetNodeFat(wanted) ==
  LET r == getNodeFat(map, wanted, << >>, << >>)
  IN /\ call' = [ NoCall EXCEPT !.op = "getNodeFat", !.ret = r.ret,
                                !.n = Len(r.nodeIDs) ]
     /\ UNCHANGED << map, syncVars >>

AddRootNode(rootNode) ==
  LET r == addRootNode(map, rootNode)
  IN /\ map' = r.map
     /\ call' = [ NoCall EXCEPT !.op = "addRootNode", !.ret = r.ret, !.why = r.why ]
     /\ UNCHANGED syncVars

AddRootNodeHash(hash, rootNode) ==
  LET r == addRootNodeHash(map, hash, rootNode)
  IN /\ map' = r.map
     /\ call' = [ NoCall EXCEPT !.op = "addRootNodeHash", !.ret = r.ret,
                                !.asserted = r.asserted, !.why = r.why ]
     /\ UNCHANGED syncVars

\* line 173: assert(!node.isRoot())
AddKnownNode(node, rawNode) ==
  /\ ~isRoot(node)
  /\ LET r == addKnownNode(map, node, rawNode)
     IN /\ map' = r.map
        /\ call' = [ NoCall EXCEPT !.op = "addKnownNode", !.ret = r.ret,
                                   !.why = r.why ]
  /\ UNCHANGED syncVars

\* map.deepCompare(other)
DeepCompare(other) ==
  /\ call' = [ NoCall EXCEPT !.op = "deepCompare", !.ret = deepCompare(map, other) ]
  /\ UNCHANGED << map, syncVars >>

\* The hashes a client may expect of a pushed root: the payload's own, the root
\* hash of the tree of all keys, none
ExpectedHashes(rootNode) ==
  { ZeroHash, TreeHash(Keys, RootID),
    IF WellFormedInner(rootNode) THEN InnerNodeHash(MakeInner(rootNode))
    ELSE Hash(rootNode) }
\* The IDs of the nodes of the trees over Keys
TreeIDs == { id \in NodeIDs : \E k \in Keys : IsPrefix(id, k) }

Next ==
  \/ \E max \in 0 .. MaxBudget : GetMissingNodes(max)
  \/ \E wanted \in TreeIDs : GetNodeFat(wanted)
  \/ \E rootNode \in AllRaws : AddRootNode(rootNode)
  \/ \E rootNode \in AllRaws : \E hash \in ExpectedHashes(rootNode) :
        AddRootNodeHash(hash, rootNode)
  \/ \E node \in TreeIDs, rawNode \in AllRaws : AddKnownNode(node, rawNode)
  \/ \E S \in ItemSets : DeepCompare(CompleteMap(S, FALSE))

Spec == Init /\ [][Next]_vars

----------------------------------------------------------------------------
\* What the claims speak of

Resident(m, id) == id \in DOMAIN m.mInnerNodeByID \/ id \in DOMAIN m.mLeafByID

\* hash(N) of the node resident at id
ResidentHash(m, id) ==
  IF isLeaf(id) THEN LeafNodeHash(m.mLeafByID[id])
  ELSE InnerNodeHash(m.mInnerNodeByID[id])

\* the wire form of the node resident at id
ResidentRaw(m, id) ==
  IF isLeaf(id) THEN LeafAddRaw(m.mLeafByID[id])
  ELSE InnerAddRaw(m.mInnerNodeByID[id])

\* the non-empty branches of the inner node resident at id
FilledBranches(m, id) ==
  { b \in Branches : m.mInnerNodeByID[id].hashes[b + 1] # ZeroHash }

\* every node reachable from the resident inner node id is resident
RECURSIVE AllBelowResident(_, _)
AllBelowResident(m, id) ==
  \A b \in FilledBranches(m, id) :
    LET child == Append(id, b)
    IN /\ Resident(m, child)
       /\ isLeaf(child) \/ AllBelowResident(m, child)

\* the resident inner nodes reachable from the root through resident nodes
RECURSIVE ReachableFrom(_, _)
ReachableFrom(m, id) ==
  { id } \cup
  UNION { ReachableFrom(m, Append(id, b)) :
            b \in { c \in FilledBranches(m, id) :
                      /\ ~isLeaf(Append(id, c))
                      /\ Append(id, c) \in DOMAIN m.mInnerNodeByID } }

Range(s) == { s[i] : i \in 1 .. Len(s) }
Budgets == 0 .. MaxBudget

\* C2: every inner node whose fullBelow flag is true has all of its
\* descendants resident.
C2_FullBelowSound ==
  \A id \in DOMAIN map.mInnerNodeByID :
    map.mInnerNodeByID[id].fullBelow => AllBelowResident(map, id)

\* C3: every resident non-root node whose parent is resident has the hash the
\* parent holds for its branch, and no push installs a node whose hash is not
\* the one the parent advertises.
C3_ResidentMatchesParent ==
  /\ \A id \in (DOMAIN map.mInnerNodeByID \cup DOMAIN map.mLeafByID) \ { RootID } :
       LET parent == SubSeq(id, 1, Len(id) - 1)
       IN parent \in DOMAIN map.mInnerNodeByID
            => ResidentHash(map, id) = map.mInnerNodeByID[parent].hashes[id[Len(id)] + 1]
  /\ \A node \in TreeIDs \ { RootID }, rawNode \in AllRaws :
       LET r == addKnownNode(map, node, rawNode)
           parent == SubSeq(node, 1, Len(node) - 1)
       IN r.map # map
            => /\ parent \in DOMAIN map.mInnerNodeByID
               /\ Hash(rawNode) = map.mInnerNodeByID[parent].hashes[node[Len(node)] + 1]
               /\ ResidentRaw(r.map, node) = rawNode

C3_Witness ==
  /\ call.op = "addKnownNode"
  /\ call.why = "inconsistent"
  /\ \E id \in DOMAIN map.mLeafByID : TRUE
  /\ \E id \in DOMAIN map.mInnerNodeByID : id # RootID

\* C4: a getMissingNodes call with a positive budget that emits nothing means
\* that every node reachable from the root is resident.
C4_EmptyMeansComplete ==
  \A max \in Budgets \ { 0 } :
    getMissingNodes(map, << >>, << >>, max).nodeIDs = << >>
      => AllBelowResident(map, RootID)

\* C5: every (id, hash) pair getMissingNodes emits names a child of a resident
\* inner node reachable from the root, with the hash that node holds for it,
\* and no node with that id and hash is resident; ids and hashes pair up.
C5_EmittedAreMissing ==
  \A max \in Budgets :
    LET r == getMissingNodes(map, << >>, << >>, max)
    IN /\ Len(r.nodeIDs) = Len(r.hashes)
       /\ \A i \in 1 .. Len(r.nodeIDs) :
            \E P \in ReachableFrom(map, RootID) :
              \E b \in FilledBranches(map, P) :
                /\ r.nodeIDs[i] = Append(P, b)
                /\ r.hashes[i] = map.mInnerNodeByID[P].hashes[b + 1]
                /\ ~( Resident(map, r.nodeIDs[i])
                      /\ ResidentHash(map, r.nodeIDs[i]) = r.hashes[i] )

C5_Witness ==
  /\ call.op = "getMissingNodes"
  /\ call.n > 1
  /\ \E id \in DOMAIN map.mInnerNodeByID : id # RootID

\* C6: on a tree whose every reachable node is resident getMissingNodes emits
\* nothing, whatever the budget and the fullBelow flags.
C6_CompleteEmitsNothing ==
  \A max \in Budgets :
    AllBelowResident(map, RootID)
      => LET r == getMissingNodes(map, << >>, << >>, max)
         IN r.nodeIDs = << >> /\ r.hashes = << >>

C6_Witness ==
  /\ call.op = "getMissingNodes"
  /\ call.why = "budget"
  /\ call.n = 0
  /\ AllBelowResident(map, RootID)
  /\ Cardinality(DOMAIN map.mLeafByID) > 1
  /\ \A id \in DOMAIN map.mInnerNodeByID : map.mInnerNodeByID[id].fullBelow

\* the resident children of the non-empty branches of the inner node id
ResidentChildren(m, id) ==
  { Append(id, b) : b \in { c \in FilledBranches(m, id) : Resident(m, Append(id, c)) } }

\* C7: getNodeFat on a resident inner node returns that node itself besides
\* one entry for each resident child; on an empty trie getNodeFat(root)
\* returns exactly one node, the empty root.
C7_FatReturnsWanted ==
  \A wanted \in DOMAIN map.mInnerNodeByID :
    LET r == getNodeFat(map, wanted, << >>, << >>)
    IN /\ wanted \in Range(r.nodeIDs)
       /\ InnerAddRaw(map.mInnerNodeByID[wanted]) \in Range(r.rawNodes)
       /\ Len(r.nodeIDs) = 1 + Cardinality(ResidentChildren(map, wanted))

\* C8: getNodeFat on a resident inner node appends every resident child of a
\* non-empty branch, skips the missing ones, and returns true exactly when none
\* was missing; when the wanted node is not resident it returns false and
\* appends nothing.
C8_FatSkipsMissing ==
  \A wanted \in NodeIDs :
    LET r == getNodeFat(map, wanted, << >>, << >>)
    IN /\ ~Resident(map, wanted)
            => ~r.ret /\ r.nodeIDs = << >> /\ r.rawNodes = << >>
       /\ wanted \in DOMAIN map.mInnerNodeByID
            => /\ Range(r.nodeIDs) = ResidentChildren(map, wanted)
               /\ Len(r.nodeIDs) = Cardinality(ResidentChildren(map, wanted))
               /\ Len(r.rawNodes) = Len(r.nodeIDs)
               /\ \A i \in 1 .. Len(r.nodeIDs) :
                    r.rawNodes[i] = ResidentRaw(map, r.nodeIDs[i])
               /\ r.ret = (\A b \in FilledBranches(map, wanted) :
                             Resident(map, Append(wanted, b)))

C8_Witness ==
  /\ call.op = "getNodeFat"
  /\ ~call.ret
  /\ call.n > 0

\* the trie has a root with a non-zero hash
RootHashNonZero(m) == InnerNodeHash(m.mInnerNodeByID[RootID]) # ZeroHash

\* C9: with a root of non-zero hash in place, either addRootNode returns
\* success and changes nothing, whatever the bytes (the expected hash being
\* the root's, as line 157 asserts); and adding the same bytes twice leaves
\* the trie that adding them once leaves.
C9_AddRootIdempotent ==
  \A rootNode \in AllRaws :
    /\ RootHashNonZero(map)
         => /\ addRootNode(map, rootNode).ret
            /\ addRootNode(map, rootNode).map = map
            /\ \A hash \in AllHashes :
                 LET r == addRootNodeHash(map, hash, rootNode)
                 IN /\ r.map = map
                    /\ hash = InnerNodeHash(map.mInnerNodeByID[RootID])
                         => r.ret /\ ~r.asserted
    /\ LET once == addRootNode(map, rootNode)
       IN addRootNode(once.map, rootNode).map = once.map
    /\ \A hash \in ExpectedHashes(rootNode) :
         LET once == addRootNodeHash(map, hash, rootNode)
         IN addRootNodeHash(once.map, hash, rootNode).map = once.map

\* a root that was walked since it was installed, and a push of a root after
\* that
C9_Witness ==
  /\ call.op \in { "addRootNode", "addRootNodeHash" }
  /\ call.why = "have root"
  /\ RootHashNonZero(map)
  /\ Root(map).fullBelow

\* C10: on a trie whose root hash is zero addRootNode(expectedHash, bytes)
\* installs the node only if its hash is expectedHash; on a mismatch it
\* returns failure and changes nothing.
C10_RootHashChecked ==
  \A rootNode \in AllRaws, hash \in AllHashes :
    ~RootHashNonZero(map)
      => LET r == addRootNodeHash(map, hash, rootNode)
         IN /\ r.map # map
                 => /\ InnerNodeHash(Root(r.map)) = hash
                    /\ InnerAddRaw(Root(r.map)) = rootNode
            /\ r.ret => InnerNodeHash(Root(r.map)) = hash
            /\ (WellFormedInner(rootNode) /\ InnerNodeHash(MakeInner(rootNode)) # hash)
                 => ~r.ret /\ r.map = map

C10_Witness ==
  /\ call.op = "addRootNodeHash"
  /\ call.why = "hash mismatch"
  /\ ~call.ret
  /\ ~RootHashNonZero(map)

\* the non-root ids a peer may push
PushIDs == TreeIDs \ { RootID }

\* every node resident before the step is resident after it
ResidentStays ==
  \A id \in TreeIDs : Resident(map, id) => Resident(map', id)

\* C11: a push of a node that is resident returns success and changes nothing,
\* whatever the bytes; a push that returns success leaves its node resident,
\* and pushing the same (id, bytes) again at once returns success and changes
\* nothing; no later operation takes a resident node away.  So the replay of a
\* log of successful pushes returns success at every call and leaves the root,
\* the indexes, the dirty sets and the fullBelow flags as they were.
C11_ReplayIdempotent ==
  /\ [](\A node \in PushIDs, rawNode \in AllRaws :
          LET r == addKnownNode(map, node, rawNode)
          IN /\ Resident(map, node) => r.ret /\ r.map = map
             /\ r.ret => /\ Resident(r.map, node)
                         /\ addKnownNode(r.map, node, rawNode).ret
                         /\ addKnownNode(r.map, node, rawNode).map = r.map)
  /\ [][ResidentStays]_vars

\* a duplicate push after a walk has set a fullBelow flag below the root
C11_Witness ==
  /\ call.op = "addKnownNode"
  /\ call.why = "duplicate"
  /\ call.ret
  /\ \E id \in DOMAIN map.mInnerNodeByID : id # RootID /\ map.mInnerNodeByID[id].fullBelow
  /\ map.mDirtyLeafNodes # {}

\* the parent's ID, and the hash the resident parent holds for the node
ParentOf(id) == SubSeq(id, 1, Len(id) - 1)
SlotHash(m, id) == m.mInnerNodeByID[ParentOf(id)].hashes[id[Len(id)] + 1]

\* the node is not resident, its parent is, and the parent's slot is not empty
Hookable(m, id) ==
  /\ ~Resident(m, id)
  /\ ParentOf(id) \in DOMAIN m.mInnerNodeByID
  /\ SlotHash(m, id) # ZeroHash

\* the ID the node deserialized from the bytes has: a leaf's is its item's
\* tag, an inner node's is the ID it was constructed with
DerivedID(id, rawNode) == IF rawNode.kind = "leaf" THEN rawNode.key ELSE id

\* C12: a push of a non-resident node beneath its resident parent's non-empty
\* slot changes the trie only if the hash of the bytes is the parent's child
\* hash and the ID derived from the bytes is the pushed ID; if either fails,
\* the push returns failure and changes nothing.
C12_ConsistencyChecked ==
  \A node \in PushIDs, rawNode \in AllRaws :
    Hookable(map, node)
      => LET r == addKnownNode(map, node, rawNode)
             consistent == /\ Hash(rawNode) = SlotHash(map, node)
                           /\ DerivedID(node, rawNode) = node
         IN /\ r.map # map => consistent /\ ResidentRaw(r.map, node) = rawNode
            /\ ~consistent => ~r.ret /\ r.map = map

\* a leaf is still missing beneath its resident parent when a push fails the
\* check
C12_Witness ==
  /\ call.op = "addKnownNode"
  /\ call.why = "inconsistent"
  /\ ~call.ret
  /\ \E id \in LeafIDs : Hookable(map, id)
  /\ \E id \in DOMAIN map.mLeafByID : TRUE

\* the trie's root is the root of the tree of some items: the source it is
\* synchronised from, every node resident
HasSource(m) ==
  \E S \in ItemSets : S # {} /\ TreeHash(S, RootID) = InnerNodeHash(Root(m))
SourceItems(m) ==
  CHOOSE S \in ItemSets : S # {} /\ TreeHash(S, RootID) = InnerNodeHash(Root(m))
SourceOf(m) == CompleteMap(SourceItems(m), FALSE)
SourceIDs(src) == DOMAIN src.mInnerNodeByID \cup DOMAIN src.mLeafByID

\* the pushes of the source's nodes in Ys, each with its own bytes, all
\* succeed on the destination m that lacks the source's inner node X, and a
\* push of X with other bytes fails
CorruptPush(m, src, X, Ys) ==
  \A bad \in AllRaws \ { ResidentRaw(src, X) } :
    LET r == addKnownNode(m, X, bad)
    IN /\ ~r.ret
       /\ r.map = m
       /\ \A Y \in Ys : addKnownNode(r.map, Y, ResidentRaw(src, Y)).ret

\* the source's inner nodes the destination lacks beneath a resident parent
Pushable(m, src) ==
  { X \in DOMAIN src.mInnerNodeByID \ { RootID } : Hookable(m, X) }

\* C13 as stated: a push of an inner node of the source with corrupted bytes
\* fails; after it the push of any other node of the source with its own bytes
\* succeeds; and as long as an inner node of the source is not resident,
\* deepCompare of source and destination is false.
C13_OtherPushesSucceed ==
  HasSource(map)
    => LET src == SourceOf(map)
       IN /\ \A X \in Pushable(map, src) :
               CorruptPush(map, src, X, SourceIDs(src) \ { RootID, X })
          /\ \A X \in DOMAIN src.mInnerNodeByID :
               ~Resident(map, X) => ~deepCompare(src, map) /\ ~deepCompare(map, src)

\* C13, amended: the same, the pushes that succeed after the rejected one
\* being those of the nodes that are resident already or whose parent is.
C13_HookedPushesSucceed ==
  HasSource(map)
    => LET src == SourceOf(map)
       IN /\ \A X \in Pushable(map, src) :
               CorruptPush(map, src, X,
                 { Y \in SourceIDs(src) \ { RootID, X } :
                     Resident(map, Y) \/ Hookable(map, Y) })
          /\ \A X \in DOMAIN src.mInnerNodeByID :
               ~Resident(map, X) => ~deepCompare(src, map) /\ ~deepCompare(map, src)

\* a push was rejected while an inner node of the source is awaited, a leaf is
\* awaited beneath its resident parent and another node is resident
C13_Witness ==
  /\ call.op = "addKnownNode"
  /\ ~call.ret
  /\ call.why = "inconsistent"
  /\ HasSource(map)
  /\ Pushable(map, SourceOf(map)) # {}
  /\ \E Y \in SourceIDs(SourceOf(map)) \ { RootID } : Resident(map, Y)
  /\ \E Y \in SourceIDs(SourceOf(map)) : Hookable(map, Y) /\ isLeaf(Y)

\* every node reachable from the root is resident
Complete(m) == AllBelowResident(m, RootID)
RootHash(m) == InnerNodeHash(Root(m))

\* the tries the client's is compared with: the sources, and itself
Others == { CompleteMap(S, FALSE) : S \in ItemSets } \cup { map }

\* C14 as stated: two tries with the same root hash, the client's partial one
\* among them, deep-compare equal, either way round.
C14_EqualRootsCompareEqual ==
  \A other \in Others :
    RootHash(map) = RootHash(other)
      => deepCompare(map, other) /\ deepCompare(other, map)

\* C14, amended: two tries with the same root hash whose every reachable node
\* is resident deep-compare equal, either way round.
C14_CompleteEqualRootsCompareEqual ==
  \A other \in Others :
    (RootHash(map) = RootHash(other) /\ Complete(map) /\ Complete(other))
      => deepCompare(map, other) /\ deepCompare(other, map)

\* a comparison that succeeded on a trie built by pushes and walked since
C14_Witness ==
  /\ call.op = "deepCompare"
  /\ call.ret
  /\ Complete(map)
  /\ Cardinality(DOMAIN map.mLeafByID) > 1
  /\ Root(map).fullBelow
  /\ map.mDirtyInnerNodes # {}

\* the ids and hashes a walk with budget max appends to empty vectors
Missing(m, max) == getMissingNodes(m, << >>, << >>, max)

\* the nodes awaited beneath a resident parent
Awaited(m) == { id \in NodeIDs \ { RootID } : Hookable(m, id) }

\* C16: one getMissingNodes(max) call appends at most max ids and as many
\* hashes, after what the vectors held; the ids are the first of those an
\* unbounded walk emits; and a call that emits fewer than max has emitted all
\* of them (the walk ended because the stack drained).
C16_BudgetBounds ==
  \A max \in Budgets :
    LET r == Missing(map, max)
        all == Missing(map, SyncBudget)
        appended == getMissingNodes(map, << RootID >>, << ZeroHash >>, max)
    IN /\ Len(r.nodeIDs) <= max
       /\ Len(r.hashes) = Len(r.nodeIDs)
       /\ Len(r.nodeIDs) <= Len(all.nodeIDs)
       /\ r.nodeIDs = SubSeq(all.nodeIDs, 1, Len(r.nodeIDs))
       /\ Len(r.nodeIDs) < max => r.nodeIDs = all.nodeIDs
       /\ appended.nodeIDs = << RootID >> \o r.nodeIDs
       /\ appended.hashes = << ZeroHash >> \o r.hashes

\* a walk that spent its whole budget while more nodes than that are awaited
C16_Witness ==
  /\ call.op = "getMissingNodes"
  /\ call.why = "budget"
  /\ call.n = MaxBudget
  /\ Cardinality(Awaited(map)) > MaxBudget

\* C17: getMissingNodes with budget 0 appends nothing and leaves the trie as
\* it is: root, indexes, dirty sets and every fullBelow flag.
C17_ZeroBudgetNoEffect ==
  LET r == getMissingNodes(map, << RootID >>, << ZeroHash >>, 0)
  IN /\ r.nodeIDs = << RootID >>
     /\ r.hashes = << ZeroHash >>
     /\ r.map = map

\* a call with budget 0 on a trie where a walk would emit ids and set a flag
C17_Witness ==
  /\ call.op = "getMissingNodes"
  /\ call.why = "no budget"
  /\ call.n = 0
  /\ Missing(map, 1).nodeIDs # << >>
  /\ Missing(map, SyncBudget).map # map

\* C18: a push of a non-resident node whose deepest resident ancestor is
\* neither at its depth nor one above is rejected at line 206, before the
\* bytes are looked at, and changes nothing; a push changes the trie only
\* beneath a resident parent.
C18_UnhookableRejected ==
  \A node \in PushIDs, rawNode \in AllRaws :
    LET A == walkTo(map, node)
        r == addKnownNode(map, node, rawNode)
    IN /\ ( /\ ~Resident(map, node)
            /\ getDepth(A) # getDepth(node)
            /\ getDepth(A) # getDepth(node) - 1 )
           => ~r.ret /\ r.map = map /\ r.why = "unhookable"
       /\ r.map # map => ParentOf(node) \in DOMAIN map.mInnerNodeByID

\* a push was rejected as unhookable on a trie that holds more than its root
C18_Witness ==
  /\ call.op = "addKnownNode"
  /\ call.why = "unhookable"
  /\ ~call.ret
  /\ RootHashNonZero(map)
  /\ \E id \in DOMAIN map.mInnerNodeByID : id # RootID

\* C19: a push of a node whose parent is resident and holds the zero hash
\* for the node's branch returns failure and changes nothing, whatever the
\* bytes.
C19_EmptySlotRejected ==
  \A node \in NodeIDs \ { RootID }, rawNode \in AllRaws :
    ( /\ ParentOf(node) \in DOMAIN map.mInnerNodeByID
      /\ SlotHash(map, node) = ZeroHash )
      => LET r == addKnownNode(map, node, rawNode)
         IN ~r.ret /\ r.map = map

\* a push into an empty slot of a root that has children
C19_Witness ==
  /\ call.op = "addKnownNode"
  /\ call.why = "empty slot"
  /\ ~call.ret
  /\ RootHashNonZero(map)

\* the inner node resident at id has its fullBelow flag set
FullBelowAt(m, id) ==
  id \in DOMAIN m.mInnerNodeByID /\ m.mInnerNodeByID[id].fullBelow

\* C21, as stated: once the inner node at an id, the root included, has
\* fullBelow = true, the inner node at that id has fullBelow = true after
\* every later getMissingNodes, addRootNode and addKnownNode call.
C21_FullBelowMonotone ==
  [][\A id \in InnerIDs : FullBelowAt(map, id) => FullBelowAt(map', id)]_vars

\* C21, amended: the same for every id but that of a root whose hash is
\* zero; the flag of a root of non-zero hash and of every inner node below
\* the root, once true, is true after every later call.
C21_FullBelowMonotoneOnceRooted ==
  [][\A id \in InnerIDs :
       ( /\ FullBelowAt(map, id)
         /\ isRoot(id) => RootHashNonZero(map) )
         => FullBelowAt(map', id)]_vars

\* a root push met a root of non-zero hash whose flag, and the flag of an
\* inner node below it, an earlier walk had set
C21_Witness ==
  /\ call.op = "addRootNode"
  /\ call.why = "have root"
  /\ RootHashNonZero(map)
  /\ FullBelowAt(map, RootID)
  /\ \E id \in InnerIDs : ~isRoot(id) /\ FullBelowAt(map, id)

\* the returns of lines 179, 183 and 198, taken before the payload is read
EarlyReturns == { "duplicate", "late" }

\* C22: a push of a node that is resident returns success by one of the
\* returns that precede the deserialization of the payload, whatever the
\* payload, and the node stored at that id, its hash and its serialization
\* are after the call what they were before it.
C22_ResidentNotReplaced ==
  \A node \in PushIDs :
    Resident(map, node) =>
      \A rawNode \in AllRaws :
        LET r == addKnownNode(map, node, rawNode)
        IN /\ r.ret
           /\ r.why \in EarlyReturns
           /\ r.map.mInnerNodeByID = map.mInnerNodeByID
           /\ r.map.mLeafByID = map.mLeafByID
           /\ ResidentHash(r.map, node) = ResidentHash(map, node)
           /\ ResidentRaw(r.map, node) = ResidentRaw(map, node)

\* a push met its node in the index, in a trie that holds a leaf and an inner
\* node below the root for each of which a peer has another payload
C22_Witness ==
  /\ call.op = "addKnownNode"
  /\ call.why \in EarlyReturns
  /\ call.ret
  /\ \E leaf \in PushIDs, rawNode \in AllLeafRaws :
        isLeaf(leaf) /\ Resident(map, leaf) /\ rawNode # ResidentRaw(map, leaf)
  /\ \E node \in PushIDs, rawNode \in AllInnerRaws :
        ~isLeaf(node) /\ Resident(map, node) /\ rawNode # ResidentRaw(map, node)

----------------------------------------------------------------------------
\* syncTest

\* Most items syncTest adds to the source
MaxSyncItems == 3

clientVars == << map, call, lockVars, applyVars >>

InitSync ==
  /\ map = EmptyMap(TRUE)
  /\ call = NoCall
  /\ pc = "fill"
  /\ items = 0
  /\ source = EmptyMap(TRUE)
  /\ \E tracking \in BOOLEAN : destination = EmptyMap(tracking)
  /\ gotNodes = << >>
  /\ failure = ""
  /\ mLock = Unlocked
  /\ thread = [ th \in Threads |-> Idle ]
  /\ NoApply

\* SHAMap::addItem: the map holds the item and every node above it
addItem(m, key) == CompleteMap(DOMAIN m.mLeafByID \cup { key }, m.tracking)

\* lines 327-334: one more random item
SyncAddItem(key) ==
  /\ pc = "fill"
  /\ items < MaxSyncItems
  /\ source' = addItem(source, key)
  /\ items' = items + 1
  /\ UNCHANGED << pc, destination, gotNodes, failure, clientVars >>

\* lines 335-347: the source is filled
SyncSetImmutable ==
  /\ pc = "fill"
  /\ items > 0
  /\ pc' = "root"
  /\ UNCHANGED << items, source, destination, gotNodes, failure, clientVars >>

\* lines 349-368: fetch the root from the source, install it in the destination
SyncRoot ==
  /\ pc = "root"
  /\ LET fat == getNodeFat(source, RootID, << >>, << >>)
         added == addRootNode(destination, fat.rawNodes[1])
     IN /\ gotNodes' = fat.rawNodes
        /\ IF ~fat.ret
           THEN /\ failure' = "GetNodeFat(root) fails"
                /\ pc' = "failed"
                /\ UNCHANGED destination
           ELSE IF Len(fat.rawNodes) # 1
           THEN /\ failure' = "Didn't get root node"
                /\ pc' = "failed"
                /\ UNCHANGED destination
           ELSE IF ~added.ret
           THEN /\ failure' = "AddRootNode fails"
                /\ pc' = "failed"
                /\ UNCHANGED destination
           ELSE /\ failure' = ""
                /\ pc' = "loop"
                /\ destination' = added.map
  /\ UNCHANGED << items, source, clientVars >>

\* lines 380-386: getNodeFat for each id asked for
RECURSIVE SyncFetch(_, _, _)
SyncFetch(m, ids, acc) ==
  IF ids = << >> \/ ~acc.ret THEN acc
  ELSE SyncFetch(m, Tail(ids), getNodeFat(m, Head(ids), acc.nodeIDs, acc.rawNodes))

\* lines 370-412: one pass of the loop.  gotNodeIDs is never appended to, so a
\* pass that fetched anything stops at line 390.
SyncPass ==
  /\ pc = "loop"
  /\ LET missing == getMissingNodes(source, << >>, << >>, SyncBudget)
         fetched == SyncFetch(missing.map, missing.nodeIDs,
                              [ nodeIDs |-> missing.nodeIDs, ret |-> TRUE,
                                rawNodes |-> << >> ])
     IN /\ source' = missing.map
        /\ IF missing.nodeIDs = << >>
           THEN /\ pc' = "compare"
                /\ UNCHANGED << gotNodes, failure >>
           ELSE /\ pc' = "failed"
                /\ gotNodes' = fetched.rawNodes
                /\ failure' = IF ~fetched.ret THEN "GetNodeFat fails"
                              ELSE "No nodes gotten"
  /\ UNCHANGED << items, destination, clientVars >>

\* lines 413-427
SyncCompare ==
  /\ pc = "compare"
  /\ IF ~deepCompare(source, destination)
     THEN /\ failure' = "DeepCompare fails"
          /\ pc' = "failed"
     ELSE /\ failure' = ""
          /\ pc' = "done"
  /\ UNCHANGED << items, source, destination, gotNodes, clientVars >>

NextSync ==
  \/ \E key \in Keys : SyncAddItem(key)
  \/ SyncSetImmutable
  \/ SyncRoot
  \/ SyncPass
  \/ SyncCompare

SpecSync == InitSync /\ [][NextSync]_vars

\* syncTest runs on: no step of it that can be taken is put off for ever
SpecSyncFair == SpecSync /\ WF_vars(NextSync)

C1_SyncTestPasses ==
  pc \notin { "fill", "root", "loop", "compare" }
    => /\ pc = "done"
       /\ failure = ""
       /\ deepCompare(source, destination)

----------------------------------------------------------------------------
\* The maps under their locks: threads calling into the two maps

\* The items of the source the threads synchronise from
LockItems == Keys

Trie(t) == IF t = "source" THEN source ELSE destination

SetTrie(t, m) ==
  IF t = "source" THEN source' = m /\ UNCHANGED destination
  ELSE destination' = m /\ UNCHANGED source

Ops == { "getMissingNodes", "getNodeFat", "addRootNode", "addKnownNode", "deepCompare" }

InitLock ==
  /\ map = EmptyMap(TRUE)
  /\ call = NoCall
  /\ pc = "idle"
  /\ items = 0
  /\ source = CompleteMap(LockItems, TRUE)
  /\ destination = EmptyMap(TRUE)
  /\ gotNodes = << >>
  /\ failure = ""
  /\ mLock = Unlocked
  /\ thread = [ th \in Threads |-> Idle ]
  /\ NoApply

\* lines 7, 76, 127, 149, 175, 249: scoped_lock sl(mLock), the mLock of the
\* map the operation is called on; the thread waits while another holds it
LockThis(th, op, this, other) ==
  /\ thread[th].pc = "idle"
  /\ mLock[this] \in { NoThread, th }
  /\ mLock' = [ mLock EXCEPT ![this] = th ]
  /\ thread' = [ thread EXCEPT ![th] = [ other |-> other, pc |-> "locked",
                                         op |-> op, this |-> this ] ]
  /\ UNCHANGED << map, call, pc, items, source, destination, gotNodes, failure,
                  applyVars >>

\* the maps the operation reads or writes: its own and, in deepCompare
\* (lines 260, 262, 296), the other's root and indexes
Touched(t) ==
  IF t.op = "deepCompare" THEN { t.this, t.other } ELSE { t.this }

\* the return: the scoped_lock goes out of scope
Return(th, op, ret) ==
  /\ mLock' = [ mLock EXCEPT ![thread[th].this] = NoThread ]
  /\ thread' = [ thread EXCEPT ![th] = Idle ]
  /\ call' = [ NoCall EXCEPT !.op = op, !.ret = ret ]
  /\ UNCHANGED << map, pc, items, gotNodes, failure, applyVars >>

In(th, op) == thread[th].pc = "locked" /\ thread[th].op = op

LockedGetMissingNodes(th) ==
  /\ In(th, "getMissingNodes")
  /\ LET r == getMissingNodes(Trie(thread[th].this), << >>, << >>, SyncBudget)
     IN /\ SetTrie(thread[th].this, r.map)
        /\ Return(th, "getMissingNodes", TRUE)

LockedGetNodeFat(th, wanted) ==
  /\ In(th, "getNodeFat")
  /\ LET r == getNodeFat(Trie(thread[th].this), wanted, << >>, << >>)
     IN /\ UNCHANGED << source, destination >>
        /\ Return(th, "getNodeFat", r.ret)

LockedAddRootNode(th) ==
  /\ In(th, "addRootNode")
  /\ LET r == addRootNode(Trie(thread[th].this), TreeRaw(LockItems, RootID))
     IN /\ SetTrie(thread[th].this, r.map)
        /\ Return(th, "addRootNode", r.ret)

LockedAddKnownNode(th, node) ==
  /\ In(th, "addKnownNode")
  /\ ~isRoot(node)
  /\ LET r == addKnownNode(Trie(thread[th].this), node, TreeRaw(LockItems, node))
     IN /\ SetTrie(thread[th].this, r.map)
        /\ Return(th, "addKnownNode", r.ret)

\* deepCompare reads the other map; while another thread is in an operation
\* on that map the reads race with its writes, and the result is any
LockedDeepCompare(th, ret) ==
  /\ In(th, "deepCompare")
  /\ \/ mLock[thread[th].other] \notin { NoThread, th }
     \/ ret = deepCompare(Trie(thread[th].this), Trie(thread[th].other))
  /\ UNCHANGED << source, destination >>
  /\ Return(th, "deepCompare", ret)

NextLock ==
  \/ \E th \in Threads, op \in Ops, this \in Tries, other \in Tries :
        /\ op # "deepCompare" => other = this
        /\ LockThis(th, op, this, other)
  \/ \E th \in Threads : LockedGetMissingNodes(th)
  \/ \E th \in Threads, wanted \in TreeIDs : LockedGetNodeFat(th, wanted)
  \/ \E th \in Threads : LockedAddRootNode(th)
  \/ \E th \in Threads, node \in TreeIDs : LockedAddKnownNode(th, node)
  \/ \E th \in Threads, ret \in BOOLEAN : LockedDeepCompare(th, ret)

SpecLock == InitLock /\ [][NextLock]_vars

\* C15: a thread inside an operation holds the mLock of every map the
\* operation reads or writes, the other map of deepCompare included.
C15_AccessUnderLock ==
  \A th \in Threads :
    thread[th].pc = "locked"
      => \A t \in Touched(thread[th]) : mLock[t] = th

----------------------------------------------------------------------------
\* Transactor::apply

\* Largest sequence number of an account or a transaction
MaxSeq == 2
\* Largest balance and fee, in drops
MaxDrops == 2

\* Account IDs; 0 is the zero ID
AccountIDs == 1 .. 2
\* Transaction IDs; 0 reads "no such field"
TxIDs == 1 .. 2
\* mTxn.getTransactionID()
ThisTxID == 1

\* The result codes the file names
TER ==
  { "tesSUCCESS", "temBAD_SRC_ACCOUNT", "temINVALID", "terNO_ACCOUNT", "terPRE_SEQ",
    "tefALREADY", "tefPAST_SEQ", "tefWRONG_PRIOR", "tefMAX_LEDGER", "temBAD_AMOUNT",
    "telINSUF_FEE_P", "temBAD_FEE", "terINSUF_FEE_B", "tefMASTER_DISABLED",
    "tefBAD_AUTH", "temBAD_AUTH_MASTER" }

\* The account roots entryCache may hand out
AccountRoots ==
  [ sfBalance : 0 .. MaxDrops, sfSequence : 1 .. MaxSeq,
    sfRegularKey : { 0 } \cup AccountIDs, sfAccountTxnID : { 0 } \cup TxIDs ]

\* The fees a transaction may state: mTxn.getTransactionFee()
FeesPaid == [ isLegalNet : BOOLEAN, isNative : BOOLEAN, value : -1 .. MaxDrops ]

\* lines 222-253.  src: mTxn.getSourceAccount(); key: the account ID of
\* mTxn.getSigningPubKey(); noCheckSign: tapNO_CHECK_SIGN; checkSign: the
\* outcome of mTxn.checkSign
preCheck(t, src, key, noCheckSign, checkSign) ==
  LET t1 == [ t EXCEPT !.mTxnAccountID = src ]
      t2 == [ t1 EXCEPT !.mSigningPubKey = key ]
  IN IF src = 0 THEN [ t |-> t1, ter |-> "temBAD_SRC_ACCOUNT" ]
     ELSE IF t.known # "good"
     THEN IF t.known = "bad" \/ (~noCheckSign /\ ~checkSign)
          THEN [ t |-> [ t2 EXCEPT !.known = "bad" ], ter |-> "temINVALID" ]
          ELSE [ t |-> [ t2 EXCEPT !.known = "good" ], ter |-> "tesSUCCESS" ]
     ELSE [ t |-> t2, ter |-> "tesSUCCESS" ]

\* lines 265-288.  account: what entryCache returns; feeDue: what
\* calculateFee (lines 92-96) leaves in mFeeDue
findAccount(t, account, feeDue) ==
  LET t1 == [ t EXCEPT !.mTxnAccount = account, !.mFeeDue = feeDue ]
  IN IF account = NoAccount
     THEN [ t |-> t1,
            ter |-> IF t.mustHaveValidAccount THEN "terNO_ACCOUNT" ELSE "tesSUCCESS" ]
     ELSE [ t |-> [ t1 EXCEPT !.mPriorBalance = account[1].sfBalance,
                              !.mSourceBalance = account[1].sfBalance,
                              !.mHasAuthKey = account[1].sfRegularKey # 0 ],
            ter |-> "tesSUCCESS" ]

\* lines 172-219.  t_seq: mTxn.getSequence(); hasTransaction: the ledger holds
\* the transaction; previousTxnID, accountTxnID: the fields of mTxn, 0 if
\* absent; accountPrevious: the account's sfPreviousTxnID; pastLast: mTxn has
\* sfLastLedgerSequence and the ledger is past it
checkSeq(t, t_seq, hasTransaction, previousTxnID, accountPrevious, accountTxnID, pastLast) ==
  LET a_seq == t.mTxnAccount[1].sfSequence
      fail(ter) == [ t |-> t, ter |-> ter ]
  IN IF t_seq # a_seq
     THEN IF a_seq < t_seq THEN fail("terPRE_SEQ")
          ELSE IF hasTransaction THEN fail("tefALREADY")
          ELSE fail("tefPAST_SEQ")
     ELSE IF previousTxnID # 0 /\ accountPrevious # previousTxnID
     THEN fail("tefWRONG_PRIOR")
     ELSE IF accountTxnID # 0 /\ t.mTxnAccount[1].sfAccountTxnID # accountTxnID
     THEN fail("tefWRONG_PRIOR")
     ELSE IF pastLast THEN fail("tefMAX_LEDGER")
     ELSE [ t |-> [ t EXCEPT !.mTxnAccount =
                      << [ @[1] EXCEPT !.sfSequence = t_seq + 1,
                                       !.sfAccountTxnID =
                                         IF @ # 0 THEN ThisTxID ELSE @ ] >> ],
            ter |-> "tesSUCCESS" ]

\* lines 103-139.  saPaid: the fee mTxn states; openLedger: tapOPEN_LEDGER
payFee(t, saPaid, openLedger) ==
  LET fail(ter) == [ t |-> t, ter |-> ter ]
  IN IF ~saPaid.isLegalNet THEN fail("temBAD_AMOUNT")
     ELSE IF openLedger /\ saPaid.value < t.mFeeDue THEN fail("telINSUF_FEE_P")
     ELSE IF saPaid.value < 0 \/ ~saPaid.isNative THEN fail("temBAD_FEE")
     ELSE IF saPaid.value = 0 THEN fail("tesSUCCESS")
     ELSE IF t.mSourceBalance < saPaid.value THEN fail("terINSUF_FEE_B")
     ELSE [ t |-> [ t EXCEPT !.mSourceBalance = @ - saPaid.value,
                             !.mTxnAccount =
                               << [ @[1] EXCEPT !.sfBalance =
                                                 t.mSourceBalance - saPaid.value ] >> ],
            ter |-> "tesSUCCESS" ]

\* lines 141-170.  disableMaster: the account's lsfDisableMaster
checkSig(t, disableMaster) ==
  IF t.mSigningPubKey = t.mTxnAccountID
  THEN [ t |-> [ t EXCEPT !.mSigMaster = TRUE ],
         ter |-> IF disableMaster THEN "tefMASTER_DISABLED" ELSE "tesSUCCESS" ]
  ELSE IF t.mHasAuthKey /\ t.mSigningPubKey = t.mTxnAccount[1].sfRegularKey
  THEN [ t |-> t, ter |-> "tesSUCCESS" ]
  ELSE IF t.mHasAuthKey THEN [ t |-> t, ter |-> "tefBAD_AUTH" ]
  ELSE [ t |-> t, ter |-> "temBAD_AUTH_MASTER" ]

\* a test that lets every result through
FailedNever(ter) == FALSE

\* lines 259, 292, 296, 300: terResult != tesSUCCESS
Failed(ter) == ter # "tesSUCCESS"

\* a stage was called and returned: the next statement, or the return
Ran(stage, r, next) ==
  /\ transactor' = r.t
  /\ terResult' = r.ter
  /\ ran' = Append(ran, [ ter |-> r.ter, stage |-> stage ])
  /\ applyAt' = IF Failed(r.ter) THEN "returned" ELSE next
  /\ UNCHANGED shaVars

\* lines 175, 136, 149: the stage reads through mTxnAccount, which is null:
\* the call returns whatever it finds, or the process ends there
NullAccount(stage, next) ==
  /\ transactor.mTxnAccount = NoAccount
  /\ \/ \E ter \in TER : Ran(stage, [ t |-> transactor, ter |-> ter ], next)
     \/ /\ applyAt' = "crashed"
        /\ UNCHANGED << transactor, terResult, ran, shaVars >>

\* apply() is called on a Transactor just made
InitApply ==
  /\ map = EmptyMap(TRUE)
  /\ call = NoCall
  /\ pc = "idle"
  /\ items = 0
  /\ source = EmptyMap(FALSE)
  /\ destination = EmptyMap(FALSE)
  /\ gotNodes = << >>
  /\ failure = ""
  /\ mLock = Unlocked
  /\ thread = [ th \in Threads |-> Idle ]
  /\ \E mustHave \in BOOLEAN : transactor = Constructed(mustHave)
  /\ applyAt = "preCheck"
  /\ terResult = "none"
  /\ ran = << >>

\* lines 257-260
ApplyPreCheck ==
  /\ applyAt = "preCheck"
  /\ \E src \in { 0 } \cup AccountIDs, key \in AccountIDs,
        known \in { "good", "bad", "unknown" }, noCheckSign \in BOOLEAN,
        checkSign \in BOOLEAN :
        Ran("preCheck",
            preCheck([ transactor EXCEPT !.known = known ], src, key, noCheckSign,
                     checkSign),
            "findAccount")

\* lines 263-288: not a stage, and the one return that hands out no stage's
\* result
ApplyFindAccount ==
  /\ applyAt = "findAccount"
  /\ \E account \in { NoAccount } \cup { << a >> : a \in AccountRoots }, feeDue \in 1 .. MaxDrops :
        LET r == findAccount(transactor, account, feeDue)
        IN /\ transactor' = r.t
           /\ terResult' = IF Failed(r.ter) THEN r.ter ELSE terResult
           /\ applyAt' = IF Failed(r.ter) THEN "returned" ELSE "checkSeq"
  /\ UNCHANGED << ran, shaVars >>

\* lines 290-292
ApplyCheckSeq ==
  /\ applyAt = "checkSeq"
  /\ \/ NullAccount("checkSeq", "payFee")
     \/ /\ transactor.mTxnAccount # NoAccount
        /\ \E t_seq \in 1 .. MaxSeq, hasTransaction \in BOOLEAN,
              previousTxnID \in { 0 } \cup TxIDs, accountPrevious \in TxIDs,
              accountTxnID \in { 0 } \cup TxIDs, pastLast \in BOOLEAN :
              Ran("checkSeq",
                  checkSeq(transactor, t_seq, hasTransaction, previousTxnID,
                           accountPrevious, accountTxnID, pastLast),
                  "payFee")

\* lines 294-296
ApplyPayFee ==
  /\ applyAt = "payFee"
  /\ \/ NullAccount("payFee", "checkSig")
     \/ /\ transactor.mTxnAccount # NoAccount
        /\ \E saPaid \in FeesPaid, openLedger \in BOOLEAN :
              Ran("payFee", payFee(transactor, saPaid, openLedger), "checkSig")

\* lines 298-300
ApplyCheckSig ==
  /\ applyAt = "checkSig"
  /\ \/ NullAccount("checkSig", "doApply")
     \/ /\ transactor.mTxnAccount # NoAccount
        /\ \E disableMaster \in BOOLEAN :
              Ran("checkSig", checkSig(transactor, disableMaster), "doApply")

\* lines 302-305: entryModify on the source account if there is one, then
\* doApply, whose result, any, apply returns
ApplyDoApply ==
  /\ applyAt = "doApply"
  /\ \E ter \in TER :
        /\ terResult' = ter
        /\ ran' = ( IF transactor.mTxnAccount # NoAccount
                    THEN Append(ran, [ ter |-> "tesSUCCESS", stage |-> "entryModify" ])
                    ELSE ran )
                  \o << [ ter |-> ter, stage |-> "doApply" ] >>
  /\ applyAt' = "returned"
  /\ UNCHANGED << transactor, shaVars >>

NextApply ==
  \/ ApplyPreCheck
  \/ ApplyFindAccount
  \/ ApplyCheckSeq
  \/ ApplyPayFee
  \/ ApplyCheckSig
  \/ ApplyDoApply

SpecApply == InitApply /\ [][NextApply]_vars

\* the stages of apply, in the order of lines 257, 290, 294, 298, 305
Order == << "preCheck", "checkSeq", "payFee", "checkSig", "doApply" >>

\* the calls of stages among the calls made so far
StagesRan == SelectSeq(ran, LAMBDA e : e.stage # "entryModify")

\* the stages called so far are the first stages of Order, in its order
InOrder ==
  /\ Len(StagesRan) <= Len(Order)
  /\ \A i \in 1 .. Len(StagesRan) : StagesRan[i].stage = Order[i]

\* no call follows a stage that did not return tesSUCCESS
NoneAfterFailure ==
  \A i \in 1 .. Len(ran) - 1 : ran[i].ter = "tesSUCCESS"

\* entryModify and doApply come after the four checks, each of which
\* returned tesSUCCESS
AppliedAfterChecks ==
  \A i \in 1 .. Len(ran) :
    ran[i].stage \in { "entryModify", "doApply" }
      => /\ i > 4
         /\ \A j \in 1 .. 4 : ran[j] = [ ter |-> "tesSUCCESS", stage |-> Order[j] ]

\* apply returned the result of the last stage it called, which is the first
\* that did not return tesSUCCESS or, if none, doApply
ReturnedLastStage ==
  /\ ran # << >>
  /\ terResult = ran[Len(ran)].ter
  /\ ran[Len(ran)].ter # "tesSUCCESS" \/ ran[Len(ran)].stage = "doApply"

\* apply returned terNO_ACCOUNT after preCheck alone: the ledger has no
\* account root of the source account, and the transactor must have one
ReturnedNoAccount ==
  /\ terResult = "terNO_ACCOUNT"
  /\ ran = << [ ter |-> "tesSUCCESS", stage |-> "preCheck" ] >>
  /\ transactor.mTxnAccount = NoAccount
  /\ transactor.mustHaveValidAccount

\* C23, as stated: apply calls preCheck, checkSeq, payFee, checkSig, doApply
\* in this order and stops at the first that does not return tesSUCCESS,
\* returning that stage's result; entryModify and doApply are called only
\* after the four checks returned tesSUCCESS; nothing is called after a
\* failed stage.
C23_StagesInOrder ==
  /\ InOrder
  /\ NoneAfterFailure
  /\ AppliedAfterChecks
  /\ applyAt = "returned" => ReturnedLastStage

\* C23, amended: the same, with one more return: after preCheck returned
\* tesSUCCESS, apply returns terNO_ACCOUNT, calling no further stage, when
\* the source account has no account root and mustHaveValidAccount() holds.
C23_StagesInOrderOrNoAccount ==
  /\ InOrder
  /\ NoneAfterFailure
  /\ AppliedAfterChecks
  /\ applyAt = "returned" => ReturnedLastStage \/ ReturnedNoAccount

\* apply ran all five stages and entryModify, having deducted a fee, and
\* returned what doApply returned
C23_Witness ==
  /\ applyAt = "returned"
  /\ Len(ran) = 6
  /\ ran[5].stage = "entryModify"
  /\ ran[6].stage = "doApply"
  /\ terResult = ran[6].ter
  /\ transactor.mSourceBalance < transactor.mPriorBalance

====
